---- MODULE Spec2Model ----
(***************************************************************************)
(* GitTide: the commit-graph component (src/unnamed/part_001).             *)
(*                                                                         *)
(* The component is a React function component.  Its state is the seven    *)
(* useState cells; its operations are the event handlers, the two effects  *)
(* and the continuations of the two async functions (refreshData and       *)
(* handleOpenRepository).  JavaScript runs every handler and every         *)
(* continuation to completion, so each is one action here; what is in      *)
(* flight between an await and its continuation is state (inflight,        *)
(* openPc).  The render is a projection of the state and is modelled by    *)
(* operators (BranchLines, BranchConnections, CommitNodes).                *)
(***************************************************************************)
EXTENDS Integers, Sequences, FiniteSets, TLC

(***************************************************************************)
(* Bounds of the model.                                                    *)
(***************************************************************************)
\* at most this many refreshData calls are awaiting their fetches at once
MaxInflight == 2
\* calculatePath is exercised on lanes 0..MaxLane
MaxLane == 2
\* ... on vertical offsets 0..MaxDY around the SCurve threshold
MaxDY == 22
\* ... and on rows 0..MaxRow
MaxRow == 3

(***************************************************************************)
(* Values.                                                                 *)
(***************************************************************************)
\* JavaScript null, for the string-valued cells (currentRepo, error)
Null == "null"
\* an absent commit (selectedCommit === null) and a present one
None == <<>>
Some(c) == <<c>>

\* a value a tauriInvoke promise resolves to: null/undefined or an array
JsNull == [isNull |-> TRUE, data |-> <<>>]
JsArray(xs) == [isNull |-> FALSE, data |-> xs]

\* `value || []`
OrEmpty(v) == IF v.isNull THEN <<>> ELSE v.data

\* the paths the directory dialog can return
Repos == {"/work/repo"}
\* err.toString()
ErrorTexts == {"Error: backend"}

\* a commit record as get_git_history returns it; the fields the component reads
Commit(id, position, parents, message) ==
    [id |-> id, position |-> position, parents |-> parents, message |-> message]

cA      == Commit("a", 0, <<>>, "init")
cAlane1 == Commit("a", 1, <<>>, "init")
cAmsg   == Commit("a", 0, <<>>, "init, reworded")
cB      == Commit("b", 0, <<"a">>, "work")
cBtrunc == Commit("b", 1, <<"z">>, "feature")
cC      == Commit("c", 0, <<"b">>, "more work")
cD      == Commit("d", 1, <<"b">>, "feature work")
cE      == Commit("e", 0, <<>>, "root of rewritten history")
cM      == Commit("m", 0, <<"a", "b">>, "merge feature")
cS      == Commit("s", 0, <<"s">>, "lists itself as parent")

\* the histories get_git_history can return, newest commit first
hSingle    == <<cA>>
hPrepend   == <<cB, cA>>
hRelaid    == <<cB, cAlane1>>
hLinear    == <<cC, cB, cA>>
hMerge     == <<cM, cD, cA, cBtrunc>>
hRewritten == <<cE>>
hUnrelated == <<cA, cE>>
hReworded  == <<cAmsg>>
hSelfRef   == <<cS, cA>>

Histories ==
    {<<>>, hSingle, hPrepend, hRelaid, hLinear, hMerge, hRewritten,
     hUnrelated, hReworded, hSelfRef}

Branch(name, isHead) == [name |-> name, is_head |-> isHead]
brMain    == <<Branch("main", TRUE)>>
brFeature == <<Branch("main", TRUE), Branch("feature", FALSE)>>
brRewrite == <<Branch("rewritten", TRUE)>>

\* get_branches for a repository whose history is h
BranchesOf(h) ==
    IF h = <<>> THEN <<>>
    ELSE IF h \in {hRelaid, hMerge} THEN brFeature
    ELSE IF h \in {hRewritten, hUnrelated} THEN brRewrite
    ELSE brMain

\* what the two fetches of one refresh resolve to: the branch list and the
\* history of one state of the repository, or null for both
Snapshots ==
    {[branches |-> JsArray(BranchesOf(h)), history |-> JsArray(h)] : h \in Histories}
    \cup {[branches |-> JsNull, history |-> JsNull]}

\* a settled promise
Resolved(v) == [settled |-> "resolved", value |-> v]
Rejected == [settled |-> "rejected", value |-> JsNull]

\* a combinator that waits for both promises but looks only at the first
PromiseAll_IgnoresSecond(p, q) ==
    IF p.settled = "resolved"
    THEN [settled |-> "resolved", values |-> <<p.value, q.value>>]
    ELSE [settled |-> "rejected", values |-> <<JsNull, JsNull>>]

\* Promise.all of two promises: resolved when both are, rejected otherwise
PromiseAll(p, q) ==
    IF p.settled = "resolved" /\ q.settled = "resolved"
    THEN [settled |-> "resolved", values |-> <<p.value, q.value>>]
    ELSE [settled |-> "rejected", values |-> <<JsNull, JsNull>>]

(***************************************************************************)
(* State.                                                                  *)
(***************************************************************************)
VARIABLES
    currentRepo,     \* Null or the path of the open repository
    branches,        \* the branch list
    gitHistory,      \* the commit store, newest first
    error,           \* Null or the error text shown in the banner
    loading,         \* the loading flag
    selectedCommit,  \* None or Some(the commit record that was clicked)
    autoRefresh,     \* the auto-refresh checkbox
    inflight,        \* the refreshData calls awaiting Promise.all, oldest first
    openPc,          \* where handleOpenRepository is: "idle", "dialog", "opening"
    last,            \* history variable: the last event and the selection before it
    pathArgs,        \* the arguments of the calculatePath call under test
    pathOut,         \* None or Some(its result)
    pageMaximized,       \* App (pages/index.tsx): maximized
    pageSelectedBranch,  \* App: selectedBranch, a branch name
    pageSelectedCommit,  \* App: selectedCommit, Null or a commit hash
    pageLast             \* history variable: App's last event and the selection before it

vars == <<currentRepo, branches, gitHistory, error, loading, selectedCommit,
          autoRefresh, inflight, openPc, last, pathArgs, pathOut,
          pageMaximized, pageSelectedBranch, pageSelectedCommit, pageLast>>

appVars == <<currentRepo, branches, gitHistory, error, loading, selectedCommit,
             autoRefresh, inflight, openPc, last>>

pathVars == <<pathArgs, pathOut>>

pageVars == <<pageMaximized, pageSelectedBranch, pageSelectedCommit, pageLast>>

NoArgs == [startX |-> 0, startY |-> 0, endX |-> 0, endY |-> 0]

\* the refreshData call of an event that settles none
NoOp == [repo |-> Null, superseded |-> FALSE]

\* the record of an event: its name, the selection before it and, when it
\* settles a refresh, the call it settles (op) and whether the data that
\* arrived equals what the store already held (same)
Event(ev) == [ev |-> ev, sel |-> selectedCommit, op |-> NoOp, same |-> FALSE]
RefreshEvent(ev, op, same) == [ev |-> ev, sel |-> selectedCommit, op |-> op, same |-> same]

InitApp ==
    /\ currentRepo = Null
    /\ branches = <<>>
    /\ gitHistory = <<>>
    /\ error = Null
    /\ loading = FALSE
    /\ selectedCommit = None
    /\ autoRefresh = TRUE
    /\ inflight = <<>>
    /\ openPc = "idle"
    /\ last = [ev |-> "init", sel |-> None, op |-> NoOp, same |-> FALSE]

\* App's useState initial values
InitPage ==
    /\ pageMaximized = FALSE
    /\ pageSelectedBranch = "main"
    /\ pageSelectedCommit = Null
    /\ pageLast = [ev |-> "init", sel |-> Null, hash |-> Null]

Init ==
    /\ InitApp
    /\ InitPage
    /\ pathArgs = NoArgs
    /\ pathOut = None

(***************************************************************************)
(* refreshData.                                                            *)
(***************************************************************************)
\* the part of the state the graph is drawn from
GraphState ==
    [branches |-> branches, gitHistory |-> gitHistory, selectedCommit |-> selectedCommit]

\* a refreshData call between its await and its continuation; repo is the
\* currentRepo of the render whose refreshData was called, superseded says
\* that a refresh started after this one has already been applied
Op(repo) == [repo |-> repo, superseded |-> FALSE]

RemoveAt(s, i) == SubSeq(s, 1, i - 1) \o SubSeq(s, i + 1, Len(s))

\* inflight without call i, the calls started before it marked superseded
Settled(i, applied) ==
    RemoveAt([j \in 1..Len(inflight) |->
                 IF applied /\ j < i
                 THEN [inflight[j] EXCEPT !.superseded = TRUE]
                 ELSE inflight[j]], i)

\* refreshData up to its await: setLoading(true) and the two fetches go out
StartRefresh(ev) ==
    /\ Len(inflight) < MaxInflight
    /\ loading' = TRUE
    /\ inflight' = Append(inflight, Op(currentRepo))
    /\ last' = Event(ev)
    /\ UNCHANGED <<currentRepo, branches, gitHistory, error, selectedCommit,
                   autoRefresh, openPc>>
    /\ UNCHANGED pathVars
    /\ UNCHANGED pageVars

\* a refresh that also resets the selection: setSelectedCommit(null)
ApplyRefresh_ClearsSelection(g, branchesData, historyData) ==
    [g EXCEPT !.branches = OrEmpty(branchesData),
              !.gitHistory = OrEmpty(historyData),
              !.selectedCommit = None]

\* a refresh that merges the batch into the store instead of replacing it
ApplyRefresh_Prepends(g, branchesData, historyData) ==
    [g EXCEPT !.branches = OrEmpty(branchesData),
              !.gitHistory = OrEmpty(historyData) \o g.gitHistory]

\* the try block after the await: setBranches, setGitHistory
ApplyRefresh(g, branchesData, historyData) ==
    [g EXCEPT !.branches = OrEmpty(branchesData),
              !.gitHistory = OrEmpty(historyData)]

\* the continuation of refreshData once both fetches have settled
RefreshSettled(i, b, h) ==
    LET all == PromiseAll(b, h)
        g == ApplyRefresh(GraphState, all.values[1], all.values[2])
    IN  /\ i \in 1..Len(inflight)
        /\ IF all.settled = "resolved"
           THEN /\ branches' = g.branches
                /\ gitHistory' = g.gitHistory
                /\ selectedCommit' = g.selectedCommit
                /\ error' = Null
                /\ last' = RefreshEvent("refreshOk", inflight[i],
                                        /\ OrEmpty(all.values[1]) = branches
                                        /\ OrEmpty(all.values[2]) = gitHistory)
           ELSE /\ error' \in ErrorTexts
                /\ last' = RefreshEvent("refreshFail", inflight[i], FALSE)
                /\ UNCHANGED <<branches, gitHistory, selectedCommit>>
        /\ loading' = FALSE
        /\ inflight' = Settled(i, all.settled = "resolved")
        /\ UNCHANGED <<currentRepo, autoRefresh, openPc>>
        /\ UNCHANGED pathVars
    /\ UNCHANGED pageVars

\* the two fetches of call i settle: both resolve with one snapshot, or one
\* of them or both reject
RefreshDone ==
    \E i \in 1..Len(inflight) :
        \/ \E s \in Snapshots :
              RefreshSettled(i, Resolved(s.branches), Resolved(s.history))
        \/ \E b \in {s.branches : s \in Snapshots} :
              RefreshSettled(i, Resolved(b), Rejected)
        \/ \E h \in {s.history : s \in Snapshots} :
              RefreshSettled(i, Rejected, Resolved(h))
        \/ RefreshSettled(i, Rejected, Rejected)

\* the interval of the auto-refresh effect fires
TimerTick ==
    /\ autoRefresh
    /\ currentRepo # Null
    /\ StartRefresh("timer")

\* the toolbar's Refresh button
RefreshClick ==
    /\ currentRepo # Null
    /\ ~loading
    /\ StartRefresh("refreshClick")

\* the error banner's Retry button
RetryClick ==
    /\ error # Null
    /\ StartRefresh("retry")

(***************************************************************************)
(* handleOpenRepository.                                                   *)
(***************************************************************************)
\* the Open Repository button: the directory dialog opens
OpenClick ==
    /\ currentRepo = Null
    /\ ~loading
    /\ openPc = "idle"
    /\ openPc' = "dialog"
    /\ last' = Event("openClick")
    /\ UNCHANGED <<currentRepo, branches, gitHistory, error, loading,
                   selectedCommit, autoRefresh, inflight>>
    /\ UNCHANGED pathVars
    /\ UNCHANGED pageVars

\* the dialog is dismissed: selected is null, only the finally block runs
DialogCancel ==
    /\ openPc = "dialog"
    /\ openPc' = "idle"
    /\ loading' = FALSE
    /\ last' = Event("dialogCancel")
    /\ UNCHANGED <<currentRepo, branches, gitHistory, error, selectedCommit,
                   autoRefresh, inflight>>
    /\ UNCHANGED pathVars
    /\ UNCHANGED pageVars

\* a directory is chosen: setLoading(true), open_repository goes out
DialogSelect ==
    /\ openPc = "dialog"
    /\ openPc' = "opening"
    /\ loading' = TRUE
    /\ last' = Event("dialogSelect")
    /\ UNCHANGED <<currentRepo, branches, gitHistory, error, selectedCommit,
                   autoRefresh, inflight>>
    /\ UNCHANGED pathVars
    /\ UNCHANGED pageVars

\* open_repository resolves: setCurrentRepo, setError(null), setLoading(false);
\* the render that follows runs the initial-load effect, which calls refreshData
OpenResolved ==
    /\ openPc = "opening"
    /\ Len(inflight) < MaxInflight
    /\ \E selected \in Repos :
          /\ currentRepo' = selected
          /\ inflight' = Append(inflight, Op(selected))
    /\ error' = Null
    /\ loading' = TRUE
    /\ openPc' = "idle"
    /\ last' = Event("openResolved")
    /\ UNCHANGED <<branches, gitHistory, selectedCommit, autoRefresh>>
    /\ UNCHANGED pathVars
    /\ UNCHANGED pageVars

\* the dialog or open_repository rejects: the catch and finally blocks run
OpenRejected ==
    /\ openPc \in {"dialog", "opening"}
    /\ error' \in ErrorTexts
    /\ loading' = FALSE
    /\ openPc' = "idle"
    /\ last' = Event("openRejected")
    /\ UNCHANGED <<currentRepo, branches, gitHistory, selectedCommit,
                   autoRefresh, inflight>>
    /\ UNCHANGED pathVars
    /\ UNCHANGED pageVars

(***************************************************************************)
(* handleCloseRepository, handleCommitClick and the other controls.        *)
(***************************************************************************)
\* handleCloseRepository without its setSelectedCommit(null)
handleCloseRepository_KeepsSelection ==
    /\ currentRepo # Null
    /\ currentRepo' = Null
    /\ branches' = <<>>
    /\ gitHistory' = <<>>
    /\ error' = Null
    /\ last' = Event("close")
    /\ UNCHANGED <<selectedCommit, loading, autoRefresh, inflight, openPc>>
    /\ UNCHANGED pathVars
    /\ UNCHANGED pageVars

\* the title-bar tab's close button
handleCloseRepository ==
    /\ currentRepo # Null
    /\ currentRepo' = Null
    /\ branches' = <<>>
    /\ gitHistory' = <<>>
    /\ selectedCommit' = None
    /\ error' = Null
    /\ last' = Event("close")
    /\ UNCHANGED <<loading, autoRefresh, inflight, openPc>>
    /\ UNCHANGED pathVars
    /\ UNCHANGED pageVars

\* a click handler that always selects: setSelectedCommit(commit)
Toggle_AlwaysSelects(selected, commit) == Some(commit)

\* selectedCommit?.id === commit.id ? null : commit
Toggle(selected, commit) ==
    IF selected # None /\ selected[1].id = commit.id THEN None ELSE Some(commit)

\* a click on the node of the commit in row i (the graph is drawn when a
\* repository is open and loading is false)
ClickCommit(i) ==
    /\ currentRepo # Null
    /\ ~loading
    /\ i \in 1..Len(gitHistory)
    /\ selectedCommit' = Toggle(selectedCommit, gitHistory[i])
    /\ last' = Event("click")
    /\ UNCHANGED <<currentRepo, branches, gitHistory, error, loading,
                   autoRefresh, inflight, openPc>>
    /\ UNCHANGED pathVars
    /\ UNCHANGED pageVars

handleCommitClick == \E i \in 1..Len(gitHistory) : ClickCommit(i)

\* the X button of the details panel
Dismiss ==
    /\ currentRepo # Null
    /\ selectedCommit # None
    /\ selectedCommit' = None
    /\ last' = Event("dismiss")
    /\ UNCHANGED <<currentRepo, branches, gitHistory, error, loading,
                   autoRefresh, inflight, openPc>>
    /\ UNCHANGED pathVars
    /\ UNCHANGED pageVars

\* the Auto-refresh checkbox
ToggleAutoRefresh ==
    /\ currentRepo # Null
    /\ autoRefresh' = ~autoRefresh
    /\ last' = Event("toggleAutoRefresh")
    /\ UNCHANGED <<currentRepo, branches, gitHistory, error, loading,
                   selectedCommit, inflight, openPc>>
    /\ UNCHANGED pathVars
    /\ UNCHANGED pageVars

\* minimize, maximize, close of the window: a tauriInvoke and nothing else
WindowControl ==
    /\ UNCHANGED appVars
    /\ UNCHANGED pathVars
    /\ UNCHANGED pageVars

(***************************************************************************)
(* calculatePath and the render.                                           *)
(***************************************************************************)
radius == 10
minVerticalDist == radius * 2

Abs(n) == IF n < 0 THEN -n ELSE n

\* n / 2 as JavaScript prints it: an integer, or a fraction for odd n
Div2(n) == IF n % 2 = 0 THEN n \div 2 ELSE [num |-> n, den |-> 2]

\* one command of an SVG path: its letter and its numbers
Cmd(letter, args) == [cmd |-> letter, args |-> args]

\* `startX === endX`
SameX(startX, endX) == startX = endX

\* the threshold test with <= for <
TooClose_Inclusive(verticalDist) == verticalDist <= minVerticalDist

\* `verticalDist < minVerticalDist`
TooClose(verticalDist) == verticalDist < minVerticalDist

\* cornerY without the direction test: always endY - radius
CornerY_IgnoresDirection(startY, endY) == endY - radius

\* the y at which the vertical run of a corner curve ends
CornerY(startY, endY) ==
    LET directionY == IF endY > startY THEN 1 ELSE -1
    IN  IF directionY = 1 THEN endY - radius ELSE endY + radius

\* the path string, as the sequence of its commands
calculatePath(startX, startY, endX, endY) ==
    LET verticalDist == Abs(endY - startY)
    IN  IF SameX(startX, endX)
        THEN <<Cmd("M", <<startX, startY>>), Cmd("L", <<endX, endY>>)>>
        ELSE IF TooClose(verticalDist)
        THEN LET midY == Div2(startY + endY)
             IN  <<Cmd("M", <<startX, startY>>),
                   Cmd("Q", <<startX, midY, Div2(startX + endX), midY>>),
                   Cmd("Q", <<endX, midY, endX, endY>>)>>
        ELSE LET cornerY == CornerY(startY, endY)
             IN  <<Cmd("M", <<startX, startY>>),
                   Cmd("L", <<startX, cornerY>>),
                   Cmd("Q", <<startX, endY,
                              startX + (IF endX > startX THEN radius ELSE -radius), endY>>),
                   Cmd("L", <<endX, endY>>)>>

\* the shape a path has, read off its commands
Letters(path) == [k \in 1..Len(path) |-> path[k].cmd]
PathKind(path) ==
    IF Letters(path) = <<"M", "L">> THEN "Straight"
    ELSE IF Letters(path) = <<"M", "Q", "Q">> THEN "SCurve"
    ELSE IF Letters(path) = <<"M", "L", "Q", "L">> THEN "CornerCurve"
    ELSE "Unknown"

\* rows 10 units apart instead of 80
NodeY_Dense(index) == index * 10 + 40

\* where the node of a commit is drawn; index counts rows from 0
NodeX(commit) == 40 + commit.position * 20
NodeY(index) == index * 80 + 40

\* gitHistory.findIndex(c => c.id === id), counting from 1; 0 when absent
FindIndex(h, id) ==
    IF \E i \in 1..Len(h) : h[i].id = id
    THEN CHOOSE i \in 1..Len(h) : h[i].id = id /\ \A j \in 1..(i - 1) : h[j].id # id
    ELSE 0

\* the graph is drawn when a repository is open and loading is false
Rendered == currentRepo # Null /\ ~loading

\* "Draw continuous branch lines first": a line from row i to the next row
\* when the two commits have the same position
BranchLines(h) ==
    {[from |-> h[i].id, to |-> h[i + 1].id,
      x1 |-> NodeX(h[i]), y1 |-> NodeY(i - 1),
      x2 |-> NodeX(h[i]), y2 |-> NodeY(i - 1) + 80] :
        i \in {j \in 1..(Len(h) - 1) : h[j + 1].position = h[j].position}}

\* gitHistory.find(c => c.id === commit.parents[0]) finds a commit
HasParentCommit(h, i) ==
    /\ Len(h[i].parents) > 0
    /\ FindIndex(h, h[i].parents[1]) # 0

\* the path drawn from the commit in row i to its parentCommit
Connection(h, i) ==
    LET parentIndex == FindIndex(h, h[i].parents[1])
    IN  [child |-> h[i].id, parent |-> h[parentIndex].id,
         d |-> calculatePath(NodeX(h[i]), NodeY(i - 1),
                             NodeX(h[parentIndex]), NodeY(parentIndex - 1))]

\* `startX !== endX || Math.abs(parentIndex - index) > 1`
NeedsPath(h, i) ==
    LET parentIndex == FindIndex(h, h[i].parents[1])
    IN  \/ NodeX(h[i]) # NodeX(h[parentIndex])
        \/ Abs(parentIndex - i) > 1

\* "Draw branch connections": a path from a commit to its parentCommit,
\* unless that is in the same lane at most one row away
BranchConnections(h) ==
    {Connection(h, i) :
        i \in {j \in 1..Len(h) : HasParentCommit(h, j) /\ NeedsPath(h, j)}}

\* "Draw commit nodes and labels": one node per row
CommitNodes(h, selected) ==
    {[id |-> h[i].id, x |-> NodeX(h[i]), y |-> NodeY(i - 1),
      isSelected |-> selected # None /\ selected[1].id = h[i].id] : i \in 1..Len(h)}

\* the commit details panel: the fields it shows of selectedCommit
DetailsPanel(selected) ==
    IF selected = None THEN None
    ELSE Some([hash |-> selected[1].id, message |-> selected[1].message,
               parents |-> selected[1].parents])

(***************************************************************************)
(* calculatePath on its own: every call on the bounded inputs.             *)
(***************************************************************************)
PathXs == {40 + lane * 20 : lane \in 0..MaxLane}
PathYs == {40 + dy : dy \in 0..MaxDY} \cup {NodeY(row) : row \in 0..MaxRow}
PathInputs == [startX : PathXs, startY : PathYs, endX : PathXs, endY : PathYs]

CallCalculatePath ==
    /\ pathOut = None
    /\ pathOut' = Some(calculatePath(pathArgs.startX, pathArgs.startY,
                                     pathArgs.endX, pathArgs.endY))
    /\ UNCHANGED pathArgs
    /\ UNCHANGED appVars
    /\ UNCHANGED pageVars

PathInit ==
    /\ InitApp
    /\ InitPage
    /\ pathArgs \in PathInputs
    /\ pathOut = None

PathNext == CallCalculatePath

PathSpec == PathInit /\ [][PathNext]_vars

(***************************************************************************)
(* App (src/src/pages/index.tsx): the commit list and the branch sidebar.  *)
(***************************************************************************)
\* the hashes of App's commits, in list order, and the names of its branches
pageCommits == <<"abc123", "def456", "ghi789", "jkl012", "mno345">>
pageBranches == <<"main", "feature/auth", "hotfix/123">>

PageEvent(ev, hash) == [ev |-> ev, sel |-> pageSelectedCommit, hash |-> hash]

\* a click on row i of the commit list: setSelectedCommit(commit.hash)
PageCommitClick ==
    /\ \E i \in 1..Len(pageCommits) :
          /\ pageSelectedCommit' = pageCommits[i]
          /\ pageLast' = PageEvent("commitClick", pageCommits[i])
    /\ UNCHANGED <<pageMaximized, pageSelectedBranch>>
    /\ UNCHANGED appVars
    /\ UNCHANGED pathVars

\* a click on a branch of the sidebar: setSelectedBranch(branch.name)
PageBranchClick ==
    /\ \E b \in 1..Len(pageBranches) : pageSelectedBranch' = pageBranches[b]
    /\ pageLast' = PageEvent("branchClick", Null)
    /\ UNCHANGED <<pageMaximized, pageSelectedCommit>>
    /\ UNCHANGED appVars
    /\ UNCHANGED pathVars

\* the title bar's maximize button: setMaximized(!maximized)
PageMaximize ==
    /\ pageMaximized' = ~pageMaximized
    /\ pageLast' = PageEvent("maximize", Null)
    /\ UNCHANGED <<pageSelectedBranch, pageSelectedCommit>>
    /\ UNCHANGED appVars
    /\ UNCHANGED pathVars

PageNext == PageCommitClick \/ PageBranchClick \/ PageMaximize

PageSpec == Init /\ [][PageNext]_vars

Next ==
    \/ OpenClick
    \/ DialogCancel
    \/ DialogSelect
    \/ OpenResolved
    \/ OpenRejected
    \/ TimerTick
    \/ RefreshClick
    \/ RetryClick
    \/ RefreshDone
    \/ handleCloseRepository
    \/ handleCommitClick
    \/ Dismiss
    \/ ToggleAutoRefresh
    \/ WindowControl

Spec == Init /\ [][Next]_vars

(***************************************************************************)
(* The properties.                                                         *)
(***************************************************************************)
InStore(h, id) == \E i \in 1..Len(h) : h[i].id = id
Ids(h) == [i \in 1..Len(h) |-> h[i].id]
LaneOfX(x) == (x - 40) \div 20

\* a refresh call's continuation ran in the step that led here
RefreshArrived == last.ev \in {"refreshOk", "refreshFail"}

\* C1: at most one commit is selected, and a selected commit's id is in the
\* commit store, whatever clicks, dismissals, refresh results and closes
\* came before (so a refresh that removes the selected commit deselects it).
C1_SelectionInStore ==
    /\ Len(selectedCommit) <= 1
    /\ selectedCommit # None => InStore(gitHistory, selectedCommit[1].id)

\* C2: the result of a refresh that was started while a repository was open
\* and arrives while none is open is dropped: branch list, commit store and
\* selection stay as the close left them.
C2_RefreshAfterCloseDropped ==
    [][(RefreshArrived' /\ last'.op.repo # Null /\ currentRepo = Null)
          => UNCHANGED <<branches, gitHistory, selectedCommit>>]_vars

\* C3: the result of a refresh that arrives after the result of a refresh
\* started later has been applied is dropped: it does not replace the branch
\* list or the commit store.
C3_OlderResultDropped ==
    [][(last'.ev = "refreshOk" /\ last'.op.superseded)
          => UNCHANGED <<branches, gitHistory>>]_vars

\* C4: right after handleCloseRepository no repository is open, the commit
\* store and the branch list are empty, nothing is drawn and nothing is
\* selected, whatever was selected before.
C4_CloseResets ==
    last.ev = "close" =>
        /\ currentRepo = Null
        /\ gitHistory = <<>>
        /\ branches = <<>>
        /\ selectedCommit = None
        /\ CommitNodes(gitHistory, selectedCommit) = {}
        /\ BranchLines(gitHistory) = {}

\* C4's case: the repository was closed while a commit was selected.
C4_Witness ==
    /\ last.ev = "close"
    /\ last.sel # None
    /\ selectedCommit = None
    /\ inflight # <<>>

\* C5: a click on the commit of row i selects it when nothing or another
\* commit is selected and deselects it when it is the selected commit; the
\* dismiss button deselects.
C5_ClickTransitions ==
    [][/\ \A i \in 1..Len(gitHistory) :
             ClickCommit(i) =>
                 selectedCommit' =
                     IF selectedCommit = None THEN Some(gitHistory[i])
                     ELSE IF selectedCommit[1].id = gitHistory[i].id THEN None
                     ELSE Some(gitHistory[i])
       /\ Dismiss => selectedCommit' = None]_vars

\* C5's case: with a selected, a click on b has selected b.
C5_Witness ==
    /\ last.ev = "click"
    /\ last.sel # None
    /\ selectedCommit # None
    /\ selectedCommit[1].id # last.sel[1].id

\* C6: applying a batch to the result of applying it gives that result
\* again, from every reachable state and for every batch; and the arrival of
\* a batch equal to what the store holds changes nothing of the graph state.
C6_Idempotent ==
    /\ [](\A s \in Snapshots :
            LET once == ApplyRefresh(GraphState, s.branches, s.history)
            IN  ApplyRefresh(once, s.branches, s.history) = once)
    /\ [][(last'.ev = "refreshOk" /\ last'.same) => GraphState' = GraphState]_vars

\* C6's case: a batch equal to a non-empty store has arrived while a commit
\* was selected.
C6_Witness ==
    /\ last.ev = "refreshOk"
    /\ last.same
    /\ gitHistory # <<>>
    /\ selectedCommit # None

\* new keeps every commit of old, in order, behind the commits it adds
FrontExtension(old, new) ==
    /\ old # <<>>
    /\ Len(new) >= Len(old)
    /\ Ids(SubSeq(new, Len(new) - Len(old) + 1, Len(new))) = Ids(old)

\* C7: when the store after a step keeps every commit of the store before
\* it and only adds commits at the front, every commit that was stored is
\* drawn in the lane it was drawn in.
C7_LaneStability ==
    [][FrontExtension(gitHistory, gitHistory') =>
          \A i \in 1..Len(gitHistory) :
              LaneOfX(NodeX(gitHistory'[FindIndex(gitHistory', gitHistory[i].id)]))
                  = LaneOfX(NodeX(gitHistory[i]))]_vars

\* the commit of row i is joined to the commit of row k: by a path, or by
\* the branch line between two rows next to each other
Joined(h, i, k) ==
    \/ \E c \in BranchConnections(h) : c.child = h[i].id /\ c.parent = h[k].id
    \/ \E l \in BranchLines(h) :
          {l.from, l.to} = {h[i].id, h[k].id} /\ Abs(i - k) = 1

\* C8: in the drawn graph every parent of a commit that is in the store is
\* joined to the commit, the second parent of a merge as well as the first.
C8_EveryStoredParentJoined ==
    Rendered =>
        \A i \in 1..Len(gitHistory) :
            \A p \in 1..Len(gitHistory[i].parents) :
                LET k == FindIndex(gitHistory, gitHistory[i].parents[p])
                IN  (k # 0 /\ k # i) => Joined(gitHistory, i, k)

\* C9: calculatePath gives a straight segment from start to end exactly
\* when the two lanes are equal; for different lanes it gives an SCurve
\* when the vertical distance is below two node radii and a CornerCurve
\* when it is at or above.
C9_PathKinds ==
    pathOut # None =>
        LET path == pathOut[1]
            sameLane == LaneOfX(pathArgs.startX) = LaneOfX(pathArgs.endX)
            dist == Abs(pathArgs.endY - pathArgs.startY)
        IN  /\ PathKind(path) = "Straight" <=> sameLane
            /\ sameLane =>
                  path = <<Cmd("M", <<pathArgs.startX, pathArgs.startY>>),
                           Cmd("L", <<pathArgs.endX, pathArgs.endY>>)>>
            /\ (~sameLane /\ dist < 2 * radius) => PathKind(path) = "SCurve"
            /\ (~sameLane /\ dist >= 2 * radius) => PathKind(path) = "CornerCurve"

\* C9's case: different lanes exactly two node radii apart vertically, and
\* the path is a CornerCurve.
C9_Witness ==
    /\ pathOut # None
    /\ pathArgs.startX # pathArgs.endX
    /\ Abs(pathArgs.endY - pathArgs.startY) = 2 * radius
    /\ PathKind(pathOut[1]) = "CornerCurve"

\* the branch list and the commit store come from one answer of the backend
OneSnapshot ==
    \E s \in Snapshots :
        branches = OrEmpty(s.branches) /\ gitHistory = OrEmpty(s.history)

\* C10: branch list and commit store always come from the same answer (no
\* state has the one replaced and the other not), and a refresh of which a
\* fetch failed leaves branch list, commit store and selection as they were
\* and records the error.
C10_RefreshAtomic ==
    /\ []OneSnapshot
    /\ [][last'.ev = "refreshFail" =>
             /\ UNCHANGED <<branches, gitHistory, selectedCommit>>
             /\ error' # Null]_vars

\* C10's case: a refresh has failed with commits in the store and one
\* selected.
C10_Witness ==
    /\ last.ev = "refreshFail"
    /\ gitHistory # <<>>
    /\ selectedCommit # None
    /\ error # Null

\* the commit lists its own id among its parents
SelfParent(commit) == \E p \in 1..Len(commit.parents) : commit.parents[p] = commit.id

\* C11: a commit that lists its own id as a parent is not drawn and the
\* rejection is reported (the error is set), while the other commits of the
\* history are drawn.
C11_SelfParentRejected ==
    Rendered =>
        \A i \in 1..Len(gitHistory) :
            LET drawn == \E n \in CommitNodes(gitHistory, selectedCommit) :
                            n.id = gitHistory[i].id
            IN  IF SelfParent(gitHistory[i])
                THEN ~drawn /\ error # Null
                ELSE drawn

\* id is one of the parents of the commit
ParentOf(commit, id) == \E p \in 1..Len(commit.parents) : commit.parents[p] = id

\* the commit of the store with this id
StoredCommit(h, id) == h[FindIndex(h, id)]

\* C12: every path and every line of the drawn graph joins a commit to one
\* of its own parents that is in the store; a parent that is not in the
\* store gets no path.
C12_OnlyParentEdges ==
    Rendered =>
        /\ \A c \in BranchConnections(gitHistory) :
              /\ InStore(gitHistory, c.parent)
              /\ ParentOf(StoredCommit(gitHistory, c.child), c.parent)
        /\ \A l \in BranchLines(gitHistory) :
              \/ ParentOf(StoredCommit(gitHistory, l.from), l.to)
              \/ ParentOf(StoredCommit(gitHistory, l.to), l.from)

Min(a, b) == IF a < b THEN a ELSE b
Max(a, b) == IF a < b THEN b ELSE a

\* C14: a CornerCurve starts at the child, runs vertically to one node
\* radius short of the parent's row on the child's side, bends to the side
\* of the parent's lane with the bend ending between the two lanes, and
\* ends at the parent's node.
C14_CornerGeometry ==
    (pathOut # None /\ PathKind(pathOut[1]) = "CornerCurve") =>
        LET path == pathOut[1]
            sx == pathArgs.startX
            sy == pathArgs.startY
            ex == pathArgs.endX
            ey == pathArgs.endY
            cornerY == path[2].args[2]
            bendX == path[3].args[3]
        IN  /\ path[1] = Cmd("M", <<sx, sy>>)
            /\ path[2] = Cmd("L", <<sx, cornerY>>)
            /\ Abs(ey - cornerY) = radius
            /\ Min(sy, ey) <= cornerY /\ cornerY <= Max(sy, ey)
            /\ path[3] = Cmd("Q", <<sx, ey, bendX, ey>>)
            /\ bendX = IF ex > sx THEN sx + radius ELSE sx - radius
            /\ Min(sx, ex) <= bendX /\ bendX <= Max(sx, ex)
            /\ path[4] = Cmd("L", <<ex, ey>>)

\* C14's case: a CornerCurve to a parent above the child and to its left.
C14_Witness ==
    /\ pathOut # None
    /\ PathKind(pathOut[1]) = "CornerCurve"
    /\ pathArgs.endY < pathArgs.startY
    /\ pathArgs.endX < pathArgs.startX

\* C15: when the selection differs from what it was before the last event,
\* that event was a commit click, the dismiss action, a close, or a refresh
\* result without the commit that was selected.
C15_SelectionFrame ==
    selectedCommit # last.sel =>
        \/ last.ev \in {"click", "dismiss", "close"}
        \/ /\ last.ev = "refreshOk"
           /\ last.sel # None
           /\ ~InStore(gitHistory, last.sel[1].id)

\* C15's case: a refresh result that still holds the selected commit has
\* arrived and the selection is what it was.
C15_Witness ==
    /\ last.ev = "refreshOk"
    /\ ~last.same
    /\ last.sel # None
    /\ InStore(gitHistory, last.sel[1].id)
    /\ selectedCommit = last.sel

\* C16: in App's commit list a click on a commit that is not the selected
\* one selects it, a click on the selected commit deselects it, and a click
\* on a branch leaves the selected commit alone.
C16_PageClickTransitions ==
    /\ pageLast.ev = "commitClick" =>
          pageSelectedCommit =
              IF pageLast.sel = pageLast.hash THEN Null ELSE pageLast.hash
    /\ pageLast.ev = "branchClick" => pageSelectedCommit = pageLast.sel

\* C17: no path drawn from the commit store is an SCurve, and a path between
\* different lanes is a CornerCurve; the same holds between any two different
\* rows of the store for any two different lanes 0..MaxLane.
C17_NoSCurveDrawn ==
    /\ \A c \in BranchConnections(gitHistory) :
          /\ PathKind(c.d) # "SCurve"
          /\ NodeX(StoredCommit(gitHistory, c.child))
                 # NodeX(StoredCommit(gitHistory, c.parent))
             => PathKind(c.d) = "CornerCurve"
    /\ \A i, k \in 1..Len(gitHistory) :
          i # k =>
              \A x1, x2 \in PathXs :
                  x1 # x2 =>
                      PathKind(calculatePath(x1, NodeY(i - 1), x2, NodeY(k - 1)))
                          = "CornerCurve"

\* C17's case: the drawn graph has a path between two lanes.
C17_Witness ==
    /\ Rendered
    /\ \E c \in BranchConnections(gitHistory) :
          /\ PathKind(c.d) = "CornerCurve"
          /\ NodeX(StoredCommit(gitHistory, c.child))
                 # NodeX(StoredCommit(gitHistory, c.parent))

\* a refresh or an open_repository call is awaiting its result
InFlight == inflight # <<>> \/ openPc = "opening"

\* C18: loading is true exactly when a refresh or a repository open is in
\* flight.
C18_LoadingTracksInFlight == loading <=> InFlight

\* C19: every refresh in flight was started while a repository was open.
C19_RefreshNeedsRepo == \A i \in 1..Len(inflight) : inflight[i].repo # Null

\* C20: the details panel shows, for the selected commit, the record the
\* store holds for its id.
C20_PanelShowsStoreRecord ==
    (selectedCommit # None /\ InStore(gitHistory, selectedCommit[1].id)) =>
        DetailsPanel(selectedCommit)
            = DetailsPanel(Some(StoredCommit(gitHistory, selectedCommit[1].id)))

====
